---- MODULE Spec2Model ----
(***************************************************************************)
(* Model of cloud-run-ocr/main.py: a Flask proxy that authenticates a      *)
(* caller with a shared secret, forwards a base64 document to Document AI  *)
(* and maps the returned entities to {amount, date, provider}.             *)
(*                                                                         *)
(* Python values are tagged records (None, str, int, bool, list, dict) so  *)
(* that truthiness, f-string formatting and dict.get behave as in Python.  *)
(* Strings the code manipulates are sequences of one-character strings.    *)
(***************************************************************************)
EXTENDS Integers, Sequences, FiniteSets, TLC

VARIABLES
    API_SECRET,     \* module global, main.py:14
    PROJECT_ID,     \* module global, main.py:15
    LOCATION,       \* module global, main.py:16
    PROCESSOR_ID,   \* module global, main.py:17
    pc,             \* position of each worker's request in its handler
    req,            \* the request a worker is handling
    data,           \* local `data` of process_document
    content,        \* local `content` (decoded bytes) of process_document
    answer,         \* outcome of the Document AI client for the request
    calls,          \* number of client.process_document invocations
    trace,          \* checks the request has gone through, in order
    resp,           \* responses sent for the request
    entities,       \* mapper: document.entities
    idx,            \* mapper: position of the for loop
    result,         \* mapper: local `result` of parse_expense_entities
    extracted       \* mapper: the value parse_expense_entities returned

config == <<API_SECRET, PROJECT_ID, LOCATION, PROCESSOR_ID>>
handlerVars == <<pc, req, data, content, answer, calls, trace, resp>>
mapperVars == <<entities, idx, result, extracted>>
vars == <<API_SECRET, PROJECT_ID, LOCATION, PROCESSOR_ID, pc, req, data,
          content, answer, calls, trace, resp, entities, idx, result,
          extracted>>

(***************************************************************************)
(* Bounds                                                                  *)
(***************************************************************************)
MaxWorkers == 2
MaxContentLen == 3
MaxEntities == 2

Workers == 1..MaxWorkers

(***************************************************************************)
(* Python values                                                           *)
(***************************************************************************)
None == [tag |-> "None"]
PyStr(s) == [tag |-> "str", val |-> s]
PyInt(i) == [tag |-> "int", val |-> i]
PyBool(b) == [tag |-> "bool", val |-> b]
PyList(s) == [tag |-> "list", val |-> s]
PyDict(f) == [tag |-> "dict", val |-> f]

\* Python truth value testing (`not x`, `x and y`, all([...])).
Truthy(v) ==
    CASE v.tag = "None" -> FALSE
      [] v.tag = "str"  -> Len(v.val) > 0
      [] v.tag = "int"  -> v.val # 0
      [] v.tag = "bool" -> v.val
      [] v.tag = "list" -> Len(v.val) > 0
      [] v.tag = "dict" -> DOMAIN v.val # {}

\* str() as applied by an f-string replacement field to an env value.
Format(v) ==
    IF v.tag = "None" THEN <<"N", "o", "n", "e">> ELSE v.val

\* dict.get(key): the value, or None when the key is absent.
DictGet(d, key) ==
    IF key \in DOMAIN d.val THEN d.val[key] ELSE None

(***************************************************************************)
(* validate_auth                                                           *)
(***************************************************************************)
\* request.headers.get("Authorization", ""): the header is None when absent.
HeaderGet(header) ==
    IF header.tag = "None" THEN <<>> ELSE header.val

Expected(secret) == <<"B", "e", "a", "r", "e", "r", " ">> \o Format(secret)

\* Faulty variant: the header only has to start with the expected value.
validate_auth_prefix(secret, header) ==
    LET auth_header == HeaderGet(header)
        expected == Expected(secret)
    IN  IF ~Truthy(secret)
        THEN [valid |-> FALSE, error |-> "API_SECRET not configured"]
        ELSE IF Len(auth_header) < Len(expected)
                  \/ SubSeq(auth_header, 1, Len(expected)) # expected
        THEN [valid |-> FALSE, error |-> "Invalid authorization"]
        ELSE [valid |-> TRUE, error |-> "None"]

\* Faulty variant: the secret is not checked for being configured.
validate_auth_unchecked(secret, header) ==
    IF HeaderGet(header) # Expected(secret)
    THEN [valid |-> FALSE, error |-> "Invalid authorization"]
    ELSE [valid |-> TRUE, error |-> "None"]

validate_auth(secret, header) ==
    LET auth_header == HeaderGet(header)
        expected == Expected(secret)
    IN  IF ~Truthy(secret)
        THEN [valid |-> FALSE, error |-> "API_SECRET not configured"]
        ELSE IF auth_header # expected
        THEN [valid |-> FALSE, error |-> "Invalid authorization"]
        ELSE [valid |-> TRUE, error |-> "None"]

(***************************************************************************)
(* base64.b64decode(s) in its default, non-strict mode                     *)
(***************************************************************************)
IsB64Char(c) == c \in {"Q", "R", "0", "+", "/"}

\* binascii.a2b_base64: characters outside the alphabet are discarded, a
\* complete pad sequence ends the input, leftover characters of a quad fail.
RECURSIVE A2B(_, _, _, _, _)
A2B(s, i, quad, pads, n) ==
    IF i > Len(s)
    THEN IF quad = 0 THEN [ok |-> TRUE, nbytes |-> n, error |-> ""]
         ELSE IF quad = 1
         THEN [ok |-> FALSE, nbytes |-> 0,
               error |-> "Invalid base64-encoded string"]
         ELSE [ok |-> FALSE, nbytes |-> 0, error |-> "Incorrect padding"]
    ELSE IF s[i] = "="
    THEN IF quad >= 2 /\ quad + pads + 1 >= 4
         THEN [ok |-> TRUE, nbytes |-> n, error |-> ""]
         ELSE A2B(s, i + 1, quad, IF quad >= 2 THEN pads + 1 ELSE pads, n)
    ELSE IF ~IsB64Char(s[i])
    THEN A2B(s, i + 1, quad, pads, n)
    ELSE A2B(s, i + 1, (quad + 1) % 4, 0, IF quad = 0 THEN n ELSE n + 1)

b64decode(v) ==
    IF v.tag = "str"
    THEN A2B(v.val, 1, 0, 0, 0)
    ELSE [ok |-> FALSE, nbytes |-> 0,
          error |-> "argument should be a bytes-like object or ASCII string"]

(***************************************************************************)
(* Requests the clients can send                                           *)
(***************************************************************************)
Chars(n, alphabet) == UNION {[1..k -> alphabet] : k \in 0..n}

Secret == <<"s", "3">>

\* Authorization header values: absent, the exact token, and near misses.
Headers ==
    { None,
      PyStr(<<>>),
      PyStr(Expected(PyStr(Secret))),
      PyStr(<<"b", "e", "a", "r", "e", "r", " ">> \o Secret),
      PyStr(Expected(PyStr(Secret)) \o <<" ">>),
      PyStr(<<"B", "e", "a", "r", "e", "r", " ">>),
      PyStr(Expected(None)),
      PyStr(Secret) }

\* Values of the "content" key: absent is modelled by leaving the key out.
Contents ==
    {None, PyInt(0), PyInt(5)}
        \cup {PyStr(c) : c \in Chars(MaxContentLen, {"Q", "=", "!"})}

MimeTypes ==
    {None, PyStr(<<>>), PyStr(<<"a", "/", "b">>), PyInt(5)}

Objects ==
    {PyDict(<<>>), PyDict("other" :> PyInt(1))}
        \cup {PyDict("content" :> c) : c \in Contents}
        \cup {PyDict("mimeType" :> m) : m \in MimeTypes}
        \cup {PyDict(("content" :> c) @@ ("mimeType" :> m)) :
                c \in Contents, m \in MimeTypes}

JsonValues ==
    {None, PyBool(FALSE), PyBool(TRUE), PyInt(0), PyInt(1), PyStr(<<>>),
     PyStr(<<"x">>), PyList(<<>>), PyList(<<PyInt(1)>>)} \cup Objects

\* A request body: JSON text of a value, text that is not JSON, or a body
\* that is absent or sent with a content type other than application/json.
Bodies ==
    {[kind |-> "json", val |-> v] : v \in JsonValues}
        \cup {[kind |-> "malformed"], [kind |-> "notjson"]}

Requests ==
    {[route |-> "process", header |-> h, body |-> b] :
        h \in Headers, b \in Bodies}

(***************************************************************************)
(* Responses                                                               *)
(***************************************************************************)
\* jsonify(body), status
Response(status, body) == [status |-> status, body |-> body]

\* The error page Flask sends for an HTTPException or an unhandled exception.
ErrorPage(status) == Response(status, [html |-> "error page"])

\* request.get_json(): the parsed value; a body that is not valid JSON aborts
\* with 400; a body that is not declared JSON yields None or aborts with
\* 400 or 415, depending on the installed Flask/Werkzeug.
get_json(body) ==
    CASE body.kind = "json" -> {[ok |-> TRUE, val |-> body.val]}
      [] body.kind = "malformed" -> {[ok |-> FALSE, status |-> 400]}
      [] body.kind = "notjson" ->
            {[ok |-> TRUE, val |-> None],
             [ok |-> FALSE, status |-> 400],
             [ok |-> FALSE, status |-> 415]}

(***************************************************************************)
(* IEEE 754 binary64 arithmetic, as Python's float performs it.            *)
(* A natural number is a sequence of limbs in base 2^15, least significant *)
(* first; a float is sign * mant * 2^exp with mant of at most 53           *)
(* significant bits.  Every operation computes the exact result and rounds *)
(* it to nearest, ties to even.                                            *)
(***************************************************************************)
Precision == 53
LimbBits == 15
Base == 2^LimbBits

Abs(i) == IF i < 0 THEN -i ELSE i
Sign(i) == IF i < 0 THEN -1 ELSE 1

RECURSIVE LimbsOf(_)
LimbsOf(n) == IF n = 0 THEN <<>> ELSE <<n % Base>> \o LimbsOf(n \div Base)

RECURSIVE ValOf(_)
ValOf(x) == IF x = <<>> THEN 0 ELSE x[1] + Base * ValOf(Tail(x))

RECURSIVE Trim(_)
Trim(x) ==
    IF x = <<>> THEN <<>>
    ELSE IF x[Len(x)] = 0 THEN Trim(SubSeq(x, 1, Len(x) - 1)) ELSE x

Limb(x, i) == IF i >= 1 /\ i <= Len(x) THEN x[i] ELSE 0

\* bit i of x, bit 1 being the least significant
Bit(x, i) ==
    (Limb(x, ((i - 1) \div LimbBits) + 1) \div 2^((i - 1) % LimbBits)) % 2

\* number of significant bits of a trimmed x
BitLen(x) ==
    IF x = <<>> THEN 0
    ELSE LimbBits * (Len(x) - 1)
           + CHOOSE k \in 1..LimbBits : 2^(k - 1) <= x[Len(x)] /\ x[Len(x)] < 2^k

RECURSIVE AddC(_, _, _, _)
AddC(a, b, i, carry) ==
    IF i > Len(a) /\ i > Len(b)
    THEN IF carry = 1 THEN <<1>> ELSE <<>>
    ELSE LET t == Limb(a, i) + Limb(b, i) + carry
         IN  <<t % Base>> \o AddC(a, b, i + 1, t \div Base)

AddLimbs(a, b) == AddC(a, b, 1, 0)

\* a - b for a >= b
RECURSIVE SubC(_, _, _, _)
SubC(a, b, i, borrow) ==
    IF i > Len(a) THEN <<>>
    ELSE LET t == Limb(a, i) - Limb(b, i) - borrow
         IN  <<t % Base>> \o SubC(a, b, i + 1, IF t < 0 THEN 1 ELSE 0)

SubLimbs(a, b) == Trim(SubC(a, b, 1, 0))

RECURSIVE GeFrom(_, _, _)
GeFrom(a, b, i) ==
    IF i = 0 THEN TRUE
    ELSE IF Limb(a, i) # Limb(b, i) THEN Limb(a, i) > Limb(b, i)
    ELSE GeFrom(a, b, i - 1)

GeLimbs(a, b) == GeFrom(a, b, IF Len(a) > Len(b) THEN Len(a) ELSE Len(b))

\* x * m for 0 <= m < Base
RECURSIVE MulC(_, _, _, _)
MulC(x, m, i, carry) ==
    IF i > Len(x)
    THEN IF carry > 0 THEN <<carry>> ELSE <<>>
    ELSE LET t == x[i] * m + carry
         IN  <<t % Base>> \o MulC(x, m, i + 1, t \div Base)

MulSmall(x, m) == Trim(MulC(x, m, 1, 0))

\* x * 2^k
ShiftL(x, k) ==
    [i \in 1..(k \div LimbBits) |-> 0] \o MulSmall(x, 2^(k % LimbBits))

\* Long division of the limbs x[1..i] by d, 0 < d < Base.
RECURSIVE DivC(_, _, _, _)
DivC(x, i, rem, d) ==
    IF i = 0 THEN [q |-> <<>>, rem |-> rem]
    ELSE LET cur == Base * rem + x[i]
             rest == DivC(x, i - 1, cur % d, d)
         IN  [q |-> rest.q \o <<cur \div d>>, rem |-> rest.rem]

DivSmall(x, d) ==
    LET r == DivC(x, Len(x), 0, d) IN [q |-> Trim(r.q), rem |-> r.rem]

\* floor(x / 2^k)
ShiftR(x, k) ==
    DivSmall(SubSeq(x, (k \div LimbBits) + 1, Len(x)), 2^(k % LimbBits)).q

\* Round sign * m * 2^e (plus a non-zero tail below it when sticky) to a
\* float: nearest, ties to even.
RoundToFloat(sign, m, e, sticky) ==
    LET t == Trim(m)
        drop == BitLen(t) - Precision
    IN  IF drop <= 0
        THEN [sign |-> sign, mant |-> t, exp |-> e]
        ELSE LET kept == ShiftR(t, drop)
                 half == Bit(t, drop) = 1
                 below == sticky \/ \E i \in 1..(drop - 1) : Bit(t, i) = 1
                 up == half /\ (below \/ Bit(kept, 1) = 1)
             IN  [sign |-> sign,
                  mant |-> IF up THEN AddLimbs(kept, <<1>>) ELSE kept,
                  exp |-> e + drop]

\* float(i)
FloatOfInt(i) == RoundToFloat(Sign(i), LimbsOf(Abs(i)), 0, FALSE)

\* n / 1e9 for an int n: the dividend is scaled to 86 bits so that the
\* quotient has more than Precision bits; 1e9 = 1000 * 1000 * 1000.
FloatDivBillion(n) ==
    LET scale == 86 - BitLen(LimbsOf(Abs(n)))
        num == ShiftL(LimbsOf(Abs(n)), scale)
        d1 == DivSmall(num, 1000)
        d2 == DivSmall(d1.q, 1000)
        d3 == DivSmall(d2.q, 1000)
    IN  RoundToFloat(Sign(n), d3.q, -scale,
                     d1.rem # 0 \/ d2.rem # 0 \/ d3.rem # 0)

\* x + y
FloatAdd(x, y) ==
    LET e == IF x.exp < y.exp THEN x.exp ELSE y.exp
        a == Trim(ShiftL(x.mant, x.exp - e))
        b == Trim(ShiftL(y.mant, y.exp - e))
    IN  IF x.sign = y.sign
        THEN RoundToFloat(x.sign, AddLimbs(a, b), e, FALSE)
        ELSE IF GeLimbs(a, b)
        THEN RoundToFloat(x.sign, SubLimbs(a, b), e, FALSE)
        ELSE RoundToFloat(y.sign, SubLimbs(b, a), e, FALSE)

\* x * k for a float x and an int k, 0 < k < Base (converted exactly)
FloatMul(x, k) == RoundToFloat(x.sign, MulSmall(x.mant, k), x.exp, FALSE)

\* round(x): the nearest integer, ties to even, as a Python int
Round(x) ==
    IF x.exp >= 0
    THEN x.sign * ValOf(ShiftL(x.mant, x.exp))
    ELSE LET frac == -x.exp
             whole == ShiftR(x.mant, frac)
             half == Bit(x.mant, frac) = 1
             below == \E i \in 1..(frac - 1) : Bit(x.mant, i) = 1
             up == half /\ (below \/ Bit(whole, 1) = 1)
         IN  x.sign * (ValOf(whole) + IF up THEN 1 ELSE 0)

\* round((float(units or 0) + (nanos or 0) / 1e9) * 100)
ValueCents(units, nanos) ==
    LET dollars == FloatAdd(FloatOfInt(units), FloatDivBillion(nanos))
    IN  Round(FloatMul(dollars, 100))

(***************************************************************************)
(* Document AI entities (proto-plus messages)                              *)
(***************************************************************************)
Money(c, u, n) == [currency_code |-> c, units |-> u, nanos |-> n]
Date(y, m, d) == [year |-> y, month |-> m, day |-> d]

\* Reading a message field that is not set yields the default message.
DefaultMoney == Money("", 0, 0)
DefaultDate == Date(0, 0, 0)

\* normalized_value: `kind` is the member of the structured_value oneof
\* that is set.
NoValue ==
    [kind |-> "none", money_value |-> DefaultMoney, date_value |-> DefaultDate]
MoneyValue(m) ==
    [kind |-> "money_value", money_value |-> m, date_value |-> DefaultDate]
DateValue(d) ==
    [kind |-> "date_value", money_value |-> DefaultMoney, date_value |-> d]

Entity(type, confidence, text, value) ==
    [type_ |-> type, confidence |-> confidence, mention_text |-> text,
     normalized_value |-> value]

\* bool(message): a proto-plus message is true when a field of it is set to
\* other than its default.
MoneyTruthy(m) == m.currency_code # "" \/ m.units # 0 \/ m.nanos # 0
DateTruthy(d) == d.year # 0 \/ d.month # 0 \/ d.day # 0

(***************************************************************************)
(* parse_expense_entities                                                  *)
(***************************************************************************)
Digit(i) == <<"0", "1", "2", "3", "4", "5", "6", "7", "8", "9">>[i + 1]

\* str(n) for n >= 0
RECURSIVE Decimal(_)
Decimal(n) ==
    IF n < 10 THEN <<Digit(n)>> ELSE Decimal(n \div 10) \o <<Digit(n % 10)>>

\* format(n, "02d") for n >= 0
ZeroPad2(n) == IF n < 10 THEN <<"0">> \o Decimal(n) ELSE Decimal(n)

\* f"{d.year}-{d.month:02d}-{d.day:02d}"
FormatDate(d) ==
    Decimal(d.year) \o <<"-">> \o ZeroPad2(d.month) \o <<"-">> \o ZeroPad2(d.day)

IsSpace(c) == c \in {" ", "\t", "\n"}

RECURSIVE LStrip(_)
LStrip(s) == IF s # <<>> /\ IsSpace(Head(s)) THEN LStrip(Tail(s)) ELSE s

RECURSIVE RStrip(_)
RStrip(s) ==
    IF s # <<>> /\ IsSpace(s[Len(s)])
    THEN RStrip(SubSeq(s, 1, Len(s) - 1)) ELSE s

\* Faulty variant: only the leading whitespace is removed.
StripLeading(s) == LStrip(s)

\* str.strip()
Strip(s) == RStrip(LStrip(s))

\* Faulty variant: a key that is already set keeps its value.
DictSetDefault(d, key, value) == d @@ (key :> value)

\* result[key] = value
DictSet(d, key, value) == (key :> value) @@ d

\* One iteration of `for entity in document.entities`.
MapEntity(res, entity) ==
    IF entity.type_ = "total_amount"
         /\ MoneyTruthy(entity.normalized_value.money_value)
    THEN LET money == entity.normalized_value.money_value
         IN  DictSet(res, "amount",
                     [valueCents |-> ValueCents(money.units, money.nanos),
                      confidence |-> entity.confidence])
    ELSE IF entity.type_ = "receipt_date"
              /\ DateTruthy(entity.normalized_value.date_value)
    THEN LET d == entity.normalized_value.date_value
         IN  DictSet(res, "date",
                     [value |-> FormatDate(d),
                      confidence |-> entity.confidence])
    ELSE IF entity.type_ = "supplier_name" /\ entity.mention_text # <<>>
    THEN DictSet(res, "provider",
                 [value |-> Strip(entity.mention_text),
                  confidence |-> entity.confidence])
    ELSE res

RECURSIVE MapFrom(_, _, _)
MapFrom(res, es, i) ==
    IF i > Len(es) THEN res ELSE MapFrom(MapEntity(res, es[i]), es, i + 1)

parse_expense_entities(es) == MapFrom(<<>>, es, 1)

(***************************************************************************)
(* Answers of the Document AI client                                       *)
(***************************************************************************)
Text == <<" ", "A", "c", " ">>

SampleAmount == Entity("total_amount", 90, Text, MoneyValue(Money("USD", 12, 500000000)))
SampleDate == Entity("receipt_date", 80, Text, DateValue(Date(2024, 3, 7)))
SampleSupplier == Entity("supplier_name", 70, Text, NoValue)
SampleOther == Entity("line_item", 60, Text, NoValue)

Documents ==
    { <<>>,
      <<SampleOther>>,
      <<SampleAmount>>,
      <<SampleOther, SampleAmount, SampleDate, SampleSupplier>> }

\* The client constructor can raise (no credentials); the call can raise
\* (network or service error) or return a document.
NoAnswer == [kind |-> "none"]

ServiceAnswers ==
    {[kind |-> "client_error", error |-> "credentials were not found"],
     [kind |-> "call_error", error |-> "503 Service Unavailable"]}
        \cup {[kind |-> "ok", entities |-> es] : es \in Documents}

(***************************************************************************)
(* The handlers, one step at a time                                        *)
(***************************************************************************)
NoRequest == [route |-> "none"]

\* `return jsonify(...), status`: the handler ends with this response.
Return(w, r) ==
    /\ resp' = [resp EXCEPT ![w] = Append(@, r)]
    /\ pc' = [pc EXCEPT ![w] = "done"]

Goto(w, label) ==
    /\ pc' = [pc EXCEPT ![w] = label]
    /\ UNCHANGED resp

Checked(w, name) == trace' = [trace EXCEPT ![w] = Append(@, name)]

\* A POST /process request reaches a worker.
Receive(w, pool) ==
    /\ pc[w] = "idle"
    /\ \E r \in pool : req' = [req EXCEPT ![w] = r]
    /\ Goto(w, "auth")
    /\ UNCHANGED <<config, data, content, answer, calls, trace, mapperVars>>

\* GET /health
health(w) ==
    /\ pc[w] = "idle"
    /\ req' = [req EXCEPT ![w] = [route |-> "health"]]
    /\ Return(w, Response(200, [status |-> "ok"]))
    /\ UNCHANGED <<config, data, content, answer, calls, trace, mapperVars>>

\* process_document, lines 71-74
ValidateAuth(w) ==
    /\ pc[w] = "auth"
    /\ Checked(w, "auth")
    /\ LET v == validate_auth(API_SECRET, req[w].header)
       IN  IF ~v.valid
           THEN Return(w, Response(401, [error |-> v.error]))
           ELSE Goto(w, "config")
    /\ UNCHANGED <<config, req, data, content, answer, calls, mapperVars>>

\* process_document, lines 76-78
ValidateConfig(w) ==
    /\ pc[w] = "config"
    /\ Checked(w, "config")
    /\ IF ~(Truthy(PROJECT_ID) /\ Truthy(PROCESSOR_ID))
       THEN Return(w, Response(500, [error |-> "Missing configuration"]))
       ELSE Goto(w, "body")
    /\ UNCHANGED <<config, req, data, content, answer, calls, mapperVars>>

\* process_document, lines 80-83
GetRequestData(w) ==
    /\ pc[w] = "body"
    /\ Checked(w, "body")
    /\ \E parsed \in get_json(req[w].body) :
         IF ~parsed.ok
         THEN Return(w, ErrorPage(parsed.status)) /\ UNCHANGED data
         ELSE /\ data' = [data EXCEPT ![w] = parsed.val]
              /\ IF ~Truthy(parsed.val)
                 THEN Return(w, Response(400, [error |-> "Missing request body"]))
                 ELSE Goto(w, "fields")
    /\ UNCHANGED <<config, req, content, answer, calls, mapperVars>>

\* Faulty variant: `and` in place of `or`.
MissingFieldsBoth(content_base64, mime_type) ==
    ~Truthy(content_base64) /\ ~Truthy(mime_type)

\* `not content_base64 or not mime_type`, line 88
MissingFields(content_base64, mime_type) ==
    ~Truthy(content_base64) \/ ~Truthy(mime_type)

\* process_document, lines 85-89; data.get raises AttributeError, outside
\* the try block, when data is not a dict.
CheckFields(w) ==
    /\ pc[w] = "fields"
    /\ Checked(w, "fields")
    /\ IF data[w].tag # "dict"
       THEN Return(w, ErrorPage(500))
       ELSE LET content_base64 == DictGet(data[w], "content")
                mime_type == DictGet(data[w], "mimeType")
            IN  IF MissingFields(content_base64, mime_type)
                THEN Return(w, Response(400,
                                [error |-> "Missing content or mimeType"]))
                ELSE Goto(w, "decode")
    /\ UNCHANGED <<config, req, data, content, answer, calls, mapperVars>>

\* Faulty variant: the failure response carries an empty `data`.
FailureWithData(message) ==
    Response(500, [success |-> FALSE, error |-> message, data |-> <<>>])

\* `except Exception as e`, lines 116-120
Failure(message) == Response(500, [success |-> FALSE, error |-> message])

\* process_document, lines 91-93
Decode(w) ==
    /\ pc[w] = "decode"
    /\ Checked(w, "decode")
    /\ LET decoded == b64decode(DictGet(data[w], "content"))
       IN  IF ~decoded.ok
           THEN Return(w, Failure(decoded.error)) /\ UNCHANGED content
           ELSE /\ content' = [content EXCEPT ![w] = decoded.nbytes]
                /\ Goto(w, "call")
    /\ UNCHANGED <<config, req, data, answer, calls, mapperVars>>

\* Faulty variant: a failed call is tried again.
CallServiceRetry(w) ==
    /\ pc[w] = "call"
    /\ \E a \in ServiceAnswers :
         /\ a.kind # "client_error"
         /\ calls' = [calls EXCEPT ![w] = @ + 1]
         /\ answer' = [answer EXCEPT ![w] = a]
         /\ IF a.kind = "call_error" /\ calls[w] = 0
            THEN Goto(w, "call") /\ UNCHANGED trace
            ELSE IF a.kind = "call_error"
            THEN Return(w, Failure(a.error)) /\ Checked(w, "call")
            ELSE Goto(w, "map") /\ Checked(w, "call")
    /\ UNCHANGED <<config, req, data, content, mapperVars>>

\* process_document, lines 95-106
CallService(w) ==
    /\ pc[w] = "call"
    /\ Checked(w, "call")
    /\ \E a \in ServiceAnswers :
         IF a.kind = "client_error"
         THEN /\ Return(w, Failure(a.error))
              /\ answer' = [answer EXCEPT ![w] = a]
              /\ UNCHANGED calls
         ELSE IF DictGet(data[w], "mimeType").tag # "str"
         THEN /\ Return(w, Failure("RawDocument.mime_type: expected str"))
              /\ UNCHANGED <<answer, calls>>
         ELSE /\ calls' = [calls EXCEPT ![w] = @ + 1]
              /\ answer' = [answer EXCEPT ![w] = a]
              /\ IF a.kind = "call_error"
                 THEN Return(w, Failure(a.error))
                 ELSE Goto(w, "map")
    /\ UNCHANGED <<config, req, data, content, mapperVars>>

\* Faulty variant: `result` is a module-level dict shared by all requests.
MapAndRespondShared(w) ==
    /\ pc[w] = "map"
    /\ Checked(w, "map")
    /\ result' = MapFrom(result, answer[w].entities, 1)
    /\ Return(w, Response(200, [success |-> TRUE, data |-> result']))
    /\ UNCHANGED <<config, req, data, content, answer, calls, entities, idx,
                   extracted>>

\* process_document, lines 108-114
MapAndRespond(w) ==
    /\ pc[w] = "map"
    /\ Checked(w, "map")
    /\ LET extracted_data == parse_expense_entities(answer[w].entities)
       IN  Return(w, Response(200, [success |-> TRUE, data |-> extracted_data]))
    /\ UNCHANGED <<config, req, data, content, answer, calls, mapperVars>>

\* The response has been sent; the worker is free for the next request.
Complete(w) ==
    /\ pc[w] = "done"
    /\ pc' = [pc EXCEPT ![w] = "idle"]
    /\ req' = [req EXCEPT ![w] = NoRequest]
    /\ data' = [data EXCEPT ![w] = None]
    /\ content' = [content EXCEPT ![w] = 0]
    /\ answer' = [answer EXCEPT ![w] = NoAnswer]
    /\ calls' = [calls EXCEPT ![w] = 0]
    /\ trace' = [trace EXCEPT ![w] = <<>>]
    /\ resp' = [resp EXCEPT ![w] = <<>>]
    /\ UNCHANGED <<config, mapperVars>>

(***************************************************************************)
(* Specification: one worker, every request                                *)
(***************************************************************************)
\* os.environ.get(name): None when the variable is unset
Secrets == {None, PyStr(<<>>), PyStr(Secret)}
ProjectIds == {None, PyStr(<<"p">>)}
ProcessorIds == {None, PyStr(<<>>), PyStr(<<"x">>)}

InitHandlers ==
    /\ LOCATION = PyStr(<<"u", "s">>)
    /\ pc = [w \in Workers |-> "idle"]
    /\ req = [w \in Workers |-> NoRequest]
    /\ data = [w \in Workers |-> None]
    /\ content = [w \in Workers |-> 0]
    /\ answer = [w \in Workers |-> NoAnswer]
    /\ calls = [w \in Workers |-> 0]
    /\ trace = [w \in Workers |-> <<>>]
    /\ resp = [w \in Workers |-> <<>>]

InitNoMapper ==
    /\ entities = <<>>
    /\ idx = 1
    /\ result = <<>>
    /\ extracted = None

Init ==
    /\ API_SECRET \in Secrets
    /\ PROJECT_ID \in ProjectIds
    /\ PROCESSOR_ID \in ProcessorIds
    /\ InitHandlers
    /\ InitNoMapper

Step(w) ==
    \/ ValidateAuth(w)
    \/ ValidateConfig(w)
    \/ GetRequestData(w)
    \/ CheckFields(w)
    \/ Decode(w)
    \/ CallService(w)
    \/ MapAndRespond(w)
    \/ Complete(w)

Next ==
    \/ Receive(1, Requests)
    \/ health(1)
    \/ Step(1)

Spec == Init /\ [][Next]_vars

(***************************************************************************)
(* Specification of the mapper alone: parse_expense_entities over every    *)
(* document of at most MaxEntities entities                                *)
(***************************************************************************)
Units == {-2, 12, 8863851}
Nanos == {0, 5000000, 294999999, 500000000}

MoneyValues ==
    {Money("USD", u, n) : u \in Units, n \in Nanos}
        \cup {Money("", 0, 0), Money("", 0, 990000000),
              Money("USD", -2, -500000000)}

DateValues ==
    {Date(2024, 3, 7), Date(2024, 12, 31), Date(987, 10, 1), Date(0, 3, 7),
     Date(2024, 0, 0), Date(0, 0, 0)}

MentionTexts ==
    {<<>>, <<" ">>, <<"A">>, <<" ", "A", " ">>, <<"A", " ", "B">>,
     <<"\t", "A", "\n">>, <<" ", " ", "A", "c", "m", "e", " ", " ">>}

EntityPool ==
    {Entity("total_amount", 90, Text, MoneyValue(m)) : m \in MoneyValues}
        \cup {Entity("total_amount", 40, Text, MoneyValue(Money("USD", 7, 0))),
              Entity("total_amount", 90, Text, NoValue),
              Entity("total_amount", 90, Text, DateValue(Date(2024, 3, 7)))}
        \cup {Entity("receipt_date", 80, Text, DateValue(d)) : d \in DateValues}
        \cup {Entity("receipt_date", 30, Text, DateValue(Date(2023, 1, 2))),
              Entity("receipt_date", 80, Text, NoValue),
              Entity("receipt_date", 80, Text, MoneyValue(Money("USD", 7, 0)))}
        \cup {Entity("supplier_name", 70, t, NoValue) : t \in MentionTexts}
        \cup {Entity("supplier_name", 20, <<"B">>, NoValue),
              Entity("line_item", 60, Text, MoneyValue(Money("USD", 7, 0))),
              Entity("currency", 60, <<>>, NoValue)}

EntityLists == UNION {[1..k -> EntityPool] : k \in 0..MaxEntities}

InitMapper ==
    /\ API_SECRET = PyStr(Secret)
    /\ PROJECT_ID = PyStr(<<"p">>)
    /\ PROCESSOR_ID = PyStr(<<"x">>)
    /\ InitHandlers
    /\ entities \in EntityLists
    /\ idx = 1
    /\ result = <<>>
    /\ extracted = None

\* One iteration of the for loop, lines 36-56
Iterate ==
    /\ idx <= Len(entities)
    /\ result' = MapEntity(result, entities[idx])
    /\ idx' = idx + 1
    /\ UNCHANGED <<config, handlerVars, entities, extracted>>

\* `return result`, line 58
ReturnResult ==
    /\ idx = Len(entities) + 1
    /\ extracted = None
    /\ extracted' = PyDict(result)
    /\ UNCHANGED <<config, handlerVars, entities, idx, result>>

NextMapper == Iterate \/ ReturnResult

SpecMapper == InitMapper /\ [][NextMapper]_vars

(***************************************************************************)
(* Specification of concurrent handling: MaxWorkers workers of the hosting *)
(* runtime handle requests at the same time, their steps interleaved       *)
(***************************************************************************)
ConcRequests ==
    {[route |-> "process", header |-> h, body |-> [kind |-> "json", val |-> v]] :
        h \in {None, PyStr(Expected(PyStr(Secret)))},
        v \in {PyDict(("content" :> PyStr(<<"Q", "Q", "=">>))
                        @@ ("mimeType" :> PyStr(<<"a", "/", "b">>))),
               PyDict(("content" :> PyStr(<<"!">>))
                        @@ ("mimeType" :> PyStr(<<"a", "/", "b">>))),
               PyDict("content" :> PyStr(<<"!">>))}}

InitConc ==
    /\ API_SECRET \in {None, PyStr(Secret)}
    /\ PROJECT_ID \in ProjectIds
    /\ PROCESSOR_ID = PyStr(<<"x">>)
    /\ InitHandlers
    /\ InitNoMapper

NextConc ==
    \E w \in Workers :
        \/ Receive(w, ConcRequests)
        \/ health(w)
        \/ Step(w)

SpecConc == InitConc /\ [][NextConc]_vars

(***************************************************************************)
(* Properties of the Request Gate and of the handler                       *)
(***************************************************************************)
Done(w) == pc[w] = "done" /\ req[w].route = "process"

\* The header is exactly "Bearer <secret>" for the configured secret.
ExactBearer(h) ==
    /\ API_SECRET.tag = "str"
    /\ h.tag = "str"
    /\ Len(h.val) = 7 + Len(API_SECRET.val)
    /\ SubSeq(h.val, 1, 7) = <<"B", "e", "a", "r", "e", "r", " ">>
    /\ \A i \in 1..Len(API_SECRET.val) : h.val[7 + i] = API_SECRET.val[i]

SecretUnset == API_SECRET = None \/ API_SECRET = PyStr(<<>>)

Authorized(w) == ExactBearer(req[w].header) /\ ~SecretUnset

ConfigComplete ==
    /\ PROJECT_ID.tag = "str" /\ PROJECT_ID.val # <<>>
    /\ PROCESSOR_ID.tag = "str" /\ PROCESSOR_ID.val # <<>>

OneResponse(w, status) == Len(resp[w]) = 1 /\ resp[w][1].status = status

\* C1: a /process request whose Authorization header is missing or is not
\* exactly "Bearer <secret>" is answered 401 with an `error` field, whatever
\* its body and the rest of the configuration, and the service is not called.
C1_UnauthorizedIs401 ==
    \A w \in Workers :
        (Done(w) /\ ~ExactBearer(req[w].header)) =>
            /\ OneResponse(w, 401)
            /\ "error" \in DOMAIN resp[w][1].body
            /\ calls[w] = 0
            /\ trace[w] = <<"auth">>

C1_Witness ==
    /\ Done(1)
    /\ API_SECRET = PyStr(Secret)
    /\ req[1].header = PyStr(Expected(PyStr(Secret)) \o <<" ">>)
    /\ req[1].body.kind = "json"
    /\ Truthy(req[1].body.val)
    /\ OneResponse(1, 401)

\* C2: with API_SECRET unset or empty every /process request is answered
\* 401 {error: "API_SECRET not configured"}, for every Authorization header.
C2_UnsetSecretIs401 ==
    \A w \in Workers :
        (Done(w) /\ SecretUnset) =>
            /\ resp[w] = <<Response(401, [error |-> "API_SECRET not configured"])>>
            /\ calls[w] = 0

C2_Witness ==
    /\ Done(1)
    /\ API_SECRET = None
    /\ req[1].header = PyStr(<<"B", "e", "a", "r", "e", "r", " ", "N", "o", "n", "e">>)
    /\ OneResponse(1, 401)

\* The `content` or the `mimeType` field of the request is missing or empty.
FieldAbsent(body, key) ==
    \/ body.kind # "json"
    \/ body.val.tag # "dict"
    \/ key \notin DOMAIN body.val.val
    \/ body.val.val[key] \in {None, PyStr(<<>>)}

FieldsAbsent(body) == FieldAbsent(body, "content") \/ FieldAbsent(body, "mimeType")

EmptyOrObject(body) ==
    /\ body.kind = "json"
    /\ \/ body.val \in {None, PyBool(FALSE), PyInt(0), PyStr(<<>>), PyList(<<>>)}
       \/ body.val.tag = "dict"

Reached(w, step) == \E i \in 1..Len(trace[w]) : trace[w][i] = step

FullSuccess(w, r) ==
    /\ r.status = 200
    /\ DOMAIN r.body = {"success", "data"}
    /\ r.body.success = TRUE
    /\ answer[w].kind = "ok"
    /\ r.body.data = parse_expense_entities(answer[w].entities)

FullFailure(r) ==
    /\ r.status = 500
    /\ DOMAIN r.body = {"success", "error"}
    /\ r.body.success = FALSE
    /\ r.body.error # ""

\* C4: a request that reached the processing step is answered either 200
\* {success: true, data: <full Extraction Result>} or 500 {success: false,
\* error: <non-empty>} without `data`; it is the latter whenever the
\* base64 decode or the external call failed.
C4_NoPartialSuccess ==
    \A w \in Workers :
        (Done(w) /\ Reached(w, "decode")) =>
            /\ Len(resp[w]) = 1
            /\ FullSuccess(w, resp[w][1]) \/ FullFailure(resp[w][1])
            /\ (~Reached(w, "call") \/ answer[w].kind # "ok") =>
                   FullFailure(resp[w][1])

C4_Witness ==
    /\ Done(1)
    /\ trace[1] = <<"auth", "config", "body", "fields", "decode", "call">>
    /\ calls[1] = 1
    /\ answer[1].kind = "call_error"
    /\ FullFailure(resp[1][1])

HandlerOrder == <<"auth", "config", "body", "fields", "decode", "call", "map">>

HandleAlone(r, a) ==
    LET v == validate_auth(API_SECRET, r.header)
        d == r.body.val
        c == DictGet(d, "content")
        m == DictGet(d, "mimeType")
    IN  IF r.route = "health" THEN Response(200, [status |-> "ok"])
        ELSE IF ~v.valid THEN Response(401, [error |-> v.error])
        ELSE IF ~ConfigComplete
        THEN Response(500, [error |-> "Missing configuration"])
        ELSE IF ~Truthy(d)
        THEN Response(400, [error |-> "Missing request body"])
        ELSE IF d.tag # "dict" THEN ErrorPage(500)
        ELSE IF ~Truthy(c) \/ ~Truthy(m)
        THEN Response(400, [error |-> "Missing content or mimeType"])
        ELSE IF ~b64decode(c).ok
        THEN Response(500, [success |-> FALSE, error |-> b64decode(c).error])
        ELSE IF a.kind \in {"client_error", "call_error"}
        THEN Response(500, [success |-> FALSE, error |-> a.error])
        ELSE Response(200, [success |-> TRUE,
                            data |-> parse_expense_entities(a.entities)])

\* C10: under any interleaving of concurrently handled requests no step
\* writes the configuration, and the response to each request is the one it
\* gets when handled alone, given the same answer of the service.
C10_Stateless ==
    [][/\ config' = config
       /\ \A w \in Workers :
            pc'[w] = "done" => resp'[w] = <<HandleAlone(req'[w], answer'[w])>>]_vars

C10_Witness ==
    /\ pc[1] = "done" /\ pc[2] = "done"
    /\ req[1].route = "process" /\ req[2].route = "process"
    /\ calls[1] = 1 /\ calls[2] = 1
    /\ answer[1].kind = "ok" /\ answer[2].kind = "ok"
    /\ answer[1].entities # answer[2].entities
    /\ OneResponse(1, 200) /\ OneResponse(2, 200)

(***************************************************************************)
(* Properties of the Extraction Mapper                                     *)
(***************************************************************************)
\* The entity the loop has just processed.
Processed == idx > 1
Last == entities[idx - 1]

\* v is an integer nearest to 100 * units + nanos / 10^7.
NearestCents(v, units, nanos) ==
    LET k == v - 100 * units
    IN  Abs(k) <= 100 /\ Abs(k * 10000000 - nanos) <= 5000000

\* C5, as claimed: a total_amount entity that carries a normalized monetary
\* value (units u, nanos n) stores amount = {valueCents, confidence} with
\* valueCents the integer nearest to 100 * u + n / 10^7 and the entity's
\* confidence.
C5_AmountIsNearestCents ==
    (Processed /\ Last.type_ = "total_amount"
        /\ Last.normalized_value.kind = "money_value"
        /\ Last.normalized_value.money_value # DefaultMoney) =>
        /\ "amount" \in DOMAIN result
        /\ result["amount"].confidence = Last.confidence
        /\ NearestCents(result["amount"].valueCents,
                        Last.normalized_value.money_value.units,
                        Last.normalized_value.money_value.nanos)

Fields == {"amount", "date", "provider"}

\* Entity e produces field f: its type is the field's and it has the
\* normalized value or mention text the field requires.
Produces(e, f) ==
    \/ /\ f = "amount"
       /\ e.type_ = "total_amount"
       /\ e.normalized_value.money_value # DefaultMoney
    \/ /\ f = "date"
       /\ e.type_ = "receipt_date"
       /\ e.normalized_value.date_value # DefaultDate
    \/ /\ f = "provider"
       /\ e.type_ = "supplier_name"
       /\ Len(e.mention_text) > 0

Producers(f) == {i \in 1..(idx - 1) : Produces(entities[i], f)}

LastProducer(f) == CHOOSE i \in Producers(f) : \A j \in Producers(f) : j <= i

DigitValue(c) == CHOOSE i \in 0..9 : Digit(i) = c
IsDigit(c) == \E i \in 0..9 : Digit(i) = c

\* s is YYYY-MM-DD for the year y, the month m and the day d.
IsIsoDate(s, y, m, d) ==
    /\ Len(s) = 10
    /\ s[5] = "-" /\ s[8] = "-"
    /\ \A i \in {1, 2, 3, 4, 6, 7, 9, 10} : IsDigit(s[i])
    /\ y = 1000 * DigitValue(s[1]) + 100 * DigitValue(s[2])
             + 10 * DigitValue(s[3]) + DigitValue(s[4])
    /\ m = 10 * DigitValue(s[6]) + DigitValue(s[7])
    /\ d = 10 * DigitValue(s[9]) + DigitValue(s[10])

\* C7, as claimed: a receipt_date entity that carries a normalized date
\* value stores date = {value, confidence} with value of the form
\* YYYY-MM-DD, month and day zero-padded, and the entity's confidence.
C7_DateIsIso ==
    (Processed /\ Last.type_ = "receipt_date"
        /\ Last.normalized_value.kind = "date_value"
        /\ Last.normalized_value.date_value # DefaultDate) =>
        /\ "date" \in DOMAIN result
        /\ result["date"].confidence = Last.confidence
        /\ IsIsoDate(result["date"].value,
                     Last.normalized_value.date_value.year,
                     Last.normalized_value.date_value.month,
                     Last.normalized_value.date_value.day)

\* v is t without its leading and trailing whitespace.
IsStripOf(v, t) ==
    /\ \E i, j \in 0..Len(t) :
         /\ i + j <= Len(t)
         /\ v = SubSeq(t, i + 1, Len(t) - j)
         /\ \A k \in 1..i : IsSpace(t[k])
         /\ \A k \in (Len(t) - j + 1)..Len(t) : IsSpace(t[k])
    /\ v = <<>> \/ (~IsSpace(v[1]) /\ ~IsSpace(v[Len(v)]))

\* C8: a supplier_name entity with non-empty mention text sets provider to
\* that text with leading and trailing whitespace stripped, with the
\* entity's confidence; without mention text it leaves the result as it was.
C8_ProviderIsStripped ==
    [][(idx' = idx + 1 /\ entities[idx].type_ = "supplier_name") =>
          IF entities[idx].mention_text # <<>>
          THEN /\ "provider" \in DOMAIN result'
               /\ result'["provider"].confidence = entities[idx].confidence
               /\ IsStripOf(result'["provider"].value, entities[idx].mention_text)
          ELSE result' = result]_vars

C8_Witness ==
    /\ Processed
    /\ Last.type_ = "supplier_name"
    /\ Last.mention_text = <<" ", " ", "A", "c", "m", "e", " ", " ">>
    /\ result["provider"].value = <<"A", "c", "m", "e">>
    /\ result["provider"].confidence = Last.confidence

====
